---- MODULE Spec2Model ----
(***************************************************************************)
(* Model of tfutils.EvolutionTrainer (python/tfutils/evolutiontrainer.py): *)
(* resolution of the current evolution and of the init snapshot from the   *)
(* directory tree, construction-time validation, and the transition made   *)
(* by mainloop when an evolution finishes.                                 *)
(***************************************************************************)
EXTENDS Integers, Sequences, FiniteSets, TLC

(***************************************************************************)
(* Bounds of the model.                                                    *)
(***************************************************************************)
\* checkpoint iteration numbers are 1..MaxIter
MaxIter == 2
\* at most this many checkpoint files exist under train_dir
MaxCheckpoints == 3

(***************************************************************************)
(* Values.                                                                 *)
(***************************************************************************)
\* Python's None for a string-valued slot, and for the snapshot tuple
None == "None"
NoSnapshot == << >>
\* no checkpoint_filepath given, and the empty string given as one
NoPath == << >>
EmptyPath == <<"">>

\* names of TrainerBase (trainerbase.py); the directory names are those of
\* the filesystem layout
PROCESSID_FILE == "processid"
TRAIN_LOGDIR == "trainlogs"
CHECKPOINTS_DIR == "checkpoints"
RECOVERY_CHECKPOINTS_DIR == "recovery_checkpoints"

STATUS_TRAINING_FINISHED == "STATUS_TRAINING_FINISHED"
STATUS_TRAINING_UNFINISHED == "STATUS_TRAINING_UNFINISHED"
STATUS_TRAINING_NAN_LOSS == "STATUS_TRAINING_NAN_LOSS"
STATUS_OTHER == "STATUS_OTHER"
TrainerStatus ==
    {STATUS_TRAINING_FINISHED, STATUS_TRAINING_UNFINISHED,
     STATUS_TRAINING_NAN_LOSS, STATUS_OTHER}

\* the errors __init__ raises
ErrInvalidName == "ValueError: is not a valid evo name"
ErrDuplicate == "ValueError: at least two evolutions named"
ErrInvalidArgument == "ValueError: invalid argument for evolutions"
ErrEmpty == "ValueError: evolution list is empty"
ErrForceNotInList == "ValueError: is not in the evolution list"
ErrNoInitSnapshot == "RuntimeError: not the first evolution and no init snapshot"
\* the error os.makedirs raises
ErrFileExists == "FileExistsError"

\* evolution names that are valid directory names, in the order in which a
\* list first uses them (the names are interchangeable; the order is not the
\* lexical one), and the names drawn for the lists
StageOrder == <<"b", "a", "c">>
StageNames == {StageOrder[i] : i \in 1..Len(StageOrder)}
ListNames == StageNames \cup {"testlogs"}

Iters == 1..MaxIter
Procs == {"p1"}

Range(s) == {s[i] : i \in 1..Len(s)}
Truthy(x) == x /= None /\ x /= ""

\* list.index(x): zero-based position of the first occurrence
index(s, x) ==
    (CHOOSE i \in 1..Len(s) : s[i] = x /\ \A j \in 1..(i-1) : s[j] /= x) - 1

\* the stage names of s in the order of their first occurrence
RECURSIVE FirstUses(_)
FirstUses(s) ==
    IF s = << >> THEN << >>
    ELSE LET rest == FirstUses(SubSeq(s, 1, Len(s) - 1))
             x == s[Len(s)]
         IN IF x \in StageNames /\ x \notin Range(rest)
            THEN Append(rest, x) ELSE rest

\* the lists given as the evolutions argument: every list of at most
\* Len(StageOrder) names, up to renaming of the stage names
EvolutionLists ==
    {s \in UNION {[1..n -> ListNames] : n \in 0..Len(StageOrder)} :
        FirstUses(s) = SubSeq(StageOrder, 1, Len(FirstUses(s)))}

\* the evolutions argument: a list, a tuple, or another iterable
EvolutionArgs ==
    {[kind |-> "list", items |-> s] : s \in EvolutionLists}
    \cup {[kind |-> "tuple", items |-> SubSeq(StageOrder, 1, 2)],
          [kind |-> "other", items |-> SubSeq(StageOrder, 1, 2)]}
    \cup {[kind |-> "list", items |-> <<n>>] :
            n \in {PROCESSID_FILE, TRAIN_LOGDIR, CHECKPOINTS_DIR,
                   RECOVERY_CHECKPOINTS_DIR}}

\* the force_evo argument
ForceArgs == {None} \cup ListNames

VARIABLES
    evolutions_arg,        \* the evolutions argument of the training job
    dirs,                  \* names d with train_dir/d a directory
    checkpoints,           \* [name -> iterations] in train_dir/name/checkpoints
    recovery_checkpoints,  \* the same for train_dir/name/recovery_checkpoints
    pc,                    \* per process: none, constructed, mainloop, returned, failed
    force_evo,             \* the force_evo argument of __init__
    error,                 \* the exception __init__ raised
    current_evolution,     \* self._current_evolution
    init_snapshot,         \* self._init_snapshot
    simpletrainer,         \* the directory self._simpletrainer is scoped to
    trainer_status,        \* what self._simpletrainer.mainloop returned
    status,                \* what mainloop returned
    restore,               \* the last load_checkpoint: its call of optimistic_restore
    query,                 \* the last comparison with the current evolution
    previous               \* the invocation before this one: what it resolved

fs == <<dirs, checkpoints, recovery_checkpoints>>
obj == <<force_evo, error, current_evolution, init_snapshot, simpletrainer>>
ret == <<trainer_status, status>>
calls == <<restore, query>>
vars == <<evolutions_arg, fs, pc, obj, ret, calls, previous>>

evolutions == evolutions_arg.items

(***************************************************************************)
(* _check_evolution_names                                                  *)
(***************************************************************************)
invalid_names ==
    {PROCESSID_FILE, TRAIN_LOGDIR, CHECKPOINTS_DIR, RECOVERY_CHECKPOINTS_DIR,
     "testlogs"}

\* variant: the loop that looks for a name used twice is left out
check_evolution_names_without_duplicates(evos) ==
    IF \E i \in 1..Len(evos) : evos[i] \in invalid_names
    THEN ErrInvalidName
    ELSE None

check_evolution_names(evos) ==
    IF \E i \in 1..Len(evos) : evos[i] \in invalid_names
    THEN ErrInvalidName
    ELSE IF \E i \in 1..Len(evos) : \E j \in 1..(i-1) : evos[j] = evos[i]
    THEN ErrDuplicate
    ELSE None

(***************************************************************************)
(* retrieve_all_checkpoints (helpers.py): the (iteration, path) pairs of a *)
(* checkpoint prefix, in an order the caller cannot rely on.               *)
(***************************************************************************)
\* os.path.join(train_dir, evo, dir, prefix) with the iteration appended
checkpoint_path(evo, dir, it) == <<evo, dir, it>>

Orders(S) ==
    {s \in [1..Cardinality(S) -> S] :
        \A i, j \in 1..Cardinality(S) : i /= j => s[i] /= s[j]}

retrieve_all_checkpoints(evo, dir, C) ==
    Orders({<<it, checkpoint_path(evo, dir, it)>> : it \in C[evo]})

(***************************************************************************)
(* sorted() on a list of (iteration, path) tuples                          *)
(***************************************************************************)
\* string order of two paths of one evolution and one iteration
PathLess(p, q) == p[2] = CHECKPOINTS_DIR /\ q[2] = RECOVERY_CHECKPOINTS_DIR

TupleLess(x, y) == x[1] < y[1] \/ (x[1] = y[1] /\ PathLess(x[2], y[2]))

RECURSIVE Insert(_, _)
Insert(s, x) ==
    IF s = << >> THEN <<x>>
    ELSE IF TupleLess(x, s[Len(s)])
    THEN Append(Insert(SubSeq(s, 1, Len(s) - 1), x), s[Len(s)])
    ELSE Append(s, x)

RECURSIVE sorted(_)
sorted(s) ==
    IF s = << >> THEN << >>
    ELSE Insert(sorted(SubSeq(s, 1, Len(s) - 1)), s[Len(s)])

(***************************************************************************)
(* _retrieve_current_evolution_and_last_snapshot                           *)
(***************************************************************************)
\* variant: the stages are scanned from the front
forward_scan(evos, i, D) ==
    LET E == {j \in 1..i : evos[j] \in D}
    IN IF E = {} THEN None
       ELSE evos[CHOOSE j \in E : \A k \in E : j <= k]

\* for evo in reversed(evolutions): if isdir(join(train_dir, evo)): break
RECURSIVE reversed_scan(_, _, _)
reversed_scan(evos, i, D) ==
    IF i = 0 THEN None
    ELSE IF evos[i] \in D THEN evos[i]
    ELSE reversed_scan(evos, i - 1, D)

\* variant: force_evo is not looked at
resolve_current_evo_ignores_force(evos, force, D) ==
    LET found == reversed_scan(evos, Len(evos), D)
    IN IF found = None THEN evos[1] ELSE found

resolve_current_evo(evos, force, D) ==
    LET found == IF force = None THEN reversed_scan(evos, Len(evos), D)
                 ELSE force
    IN IF found = None THEN evos[1] ELSE found

resolve_previous_evo(evos, current_evo) ==
    LET current_evo_index == index(evos, current_evo)
    IN IF current_evo_index > 0 THEN evos[current_evo_index] ELSE None

\* variant: the concatenated lists are not sorted
current_evo_checkpoints_unsorted(current_evo, C, R) ==
    {n \o r :
        n \in retrieve_all_checkpoints(current_evo, CHECKPOINTS_DIR, C),
        r \in retrieve_all_checkpoints(current_evo, RECOVERY_CHECKPOINTS_DIR, R)}

\* the lists all_checkpoints can be for the current evolution
current_evo_checkpoints(current_evo, C, R) ==
    {sorted(n \o r) :
        n \in retrieve_all_checkpoints(current_evo, CHECKPOINTS_DIR, C),
        r \in retrieve_all_checkpoints(current_evo, RECOVERY_CHECKPOINTS_DIR, R)}

\* variant: the recovery checkpoints of the previous evolution are added
previous_evo_checkpoints_with_recovery(previous_evo, C, R) ==
    {sorted(n \o r) :
        n \in retrieve_all_checkpoints(previous_evo, CHECKPOINTS_DIR, C),
        r \in retrieve_all_checkpoints(previous_evo, RECOVERY_CHECKPOINTS_DIR, R)}

\* the lists all_checkpoints can be for the previous evolution
previous_evo_checkpoints(previous_evo, C, R) ==
    retrieve_all_checkpoints(previous_evo, CHECKPOINTS_DIR, C)

\* snapshot = (evo,) + all_checkpoints[-1], if len(all_checkpoints)
last_snapshot(evo, all_checkpoints, otherwise) ==
    IF Len(all_checkpoints) > 0
    THEN <<evo>> \o all_checkpoints[Len(all_checkpoints)]
    ELSE otherwise

current_evo_snapshots(current_evo, C, R) ==
    IF Truthy(current_evo)
    THEN {last_snapshot(current_evo, l, NoSnapshot) :
            l \in current_evo_checkpoints(current_evo, C, R)}
    ELSE {NoSnapshot}

previous_evo_snapshots(previous_evo, snapshot, C, R) ==
    IF Truthy(previous_evo) /\ snapshot = NoSnapshot
    THEN {last_snapshot(previous_evo, l, snapshot) :
            l \in previous_evo_checkpoints(previous_evo, C, R)}
    ELSE {snapshot}

\* the pairs <<current_evo, snapshot>> the method can return
retrieve_current_evolution_and_last_snapshot(evos, force, D, C, R) ==
    LET current_evo == resolve_current_evo(evos, force, D)
        previous_evo == resolve_previous_evo(evos, current_evo)
    IN {<<current_evo, s>> :
          s \in UNION {previous_evo_snapshots(previous_evo, s0, C, R) :
                         s0 \in current_evo_snapshots(current_evo, C, R)}}

(***************************************************************************)
(* __init__                                                                *)
(***************************************************************************)
Failed(err, current_evo, snapshot) ==
    [pc |-> "failed", error |-> err, current_evolution |-> current_evo,
     init_snapshot |-> snapshot, simpletrainer |-> None]

Constructed(current_evo, snapshot) ==
    [pc |-> "constructed", error |-> None, current_evolution |-> current_evo,
     init_snapshot |-> snapshot, simpletrainer |-> current_evo]

\* if len(self._evolutions) == 0: raise
list_is_empty(evos) == Len(evos) = 0

\* if not force_evo is None and not force_evo in self._evolutions: raise
force_evo_rejected(evos, force) == force /= None /\ force \notin Range(evos)

\* variant: the check for a missing init snapshot is left out
snapshot_missing_never(evos, current_evo, snapshot) == FALSE

\* if index(current) > 0 and self._init_snapshot is None: raise
snapshot_missing(evos, current_evo, snapshot) ==
    index(evos, current_evo) > 0 /\ snapshot = NoSnapshot

\* the outcomes of EvolutionTrainer(session, train_dir, arg, force)
init(arg, force, D, C, R) ==
    IF check_evolution_names(arg.items) /= None
    THEN {Failed(check_evolution_names(arg.items), None, NoSnapshot)}
    ELSE IF arg.kind \notin {"tuple", "list"}
    THEN {Failed(ErrInvalidArgument, None, NoSnapshot)}
    ELSE IF list_is_empty(arg.items)
    THEN {Failed(ErrEmpty, None, NoSnapshot)}
    ELSE IF force_evo_rejected(arg.items, force)
    THEN {Failed(ErrForceNotInList, None, NoSnapshot)}
    ELSE {IF snapshot_missing(arg.items, r[1], r[2])
          THEN Failed(ErrNoInitSnapshot, r[1], r[2])
          ELSE Constructed(r[1], r[2]) :
            r \in retrieve_current_evolution_and_last_snapshot(
                      arg.items, force, D, C, R)}

(***************************************************************************)
(* mainloop, after self._simpletrainer.mainloop returned                   *)
(***************************************************************************)
has_next_evolution(evos, current_evo) ==
    index(evos, current_evo) + 1 < Len(evos)

\* variant: the evolution after the next one, if there is one
next_evolution_skipping_one(evos, current_evo) ==
    IF index(evos, current_evo) + 3 <= Len(evos)
    THEN evos[index(evos, current_evo) + 3]
    ELSE evos[index(evos, current_evo) + 2]

next_evolution(evos, current_evo) == evos[index(evos, current_evo) + 2]

\* variant: the directory of the next evolution is not created
mainloop_dirs_never_creates(evos, current_evo, s, D) == D

\* variant: the directory is created whatever the status is
mainloop_dirs_on_any_status(evos, current_evo, s, D) ==
    IF has_next_evolution(evos, current_evo)
    THEN D \cup {next_evolution(evos, current_evo)}
    ELSE D

\* variant: the directory created is the one of the current evolution
mainloop_dirs_creates_current(evos, current_evo, s, D) ==
    IF s = STATUS_TRAINING_FINISHED /\ has_next_evolution(evos, current_evo)
    THEN D \cup {current_evo}
    ELSE D

\* os.makedirs(next_evolution_dir, exist_ok=True), when it is reached
mainloop_dirs(evos, current_evo, s, D) ==
    IF s = STATUS_TRAINING_FINISHED /\ has_next_evolution(evos, current_evo)
    THEN D \cup {next_evolution(evos, current_evo)}
    ELSE D

\* os.makedirs(name, exist_ok): FileExistsError if the directory is there
\* and exist_ok is false
makedirs_raises(name, exist_ok, D) == name \in D /\ ~exist_ok

\* variant: os.makedirs(next_evolution_dir) without exist_ok
mainloop_raises_if_exists(evos, current_evo, s, D) ==
    /\ s = STATUS_TRAINING_FINISHED
    /\ has_next_evolution(evos, current_evo)
    /\ makedirs_raises(next_evolution(evos, current_evo), FALSE, D)

\* os.makedirs(next_evolution_dir, exist_ok=True) raises
mainloop_raises(evos, current_evo, s, D) ==
    /\ s = STATUS_TRAINING_FINISHED
    /\ has_next_evolution(evos, current_evo)
    /\ makedirs_raises(next_evolution(evos, current_evo), TRUE, D)

\* variant: the status of the single-stage trainer is returned as it is
mainloop_status_never_overrides(evos, current_evo, s) == s

\* variant: the status is overridden without looking for a next evolution
mainloop_status_always_overrides(evos, current_evo, s) ==
    IF s = STATUS_TRAINING_FINISHED
    THEN STATUS_TRAINING_UNFINISHED
    ELSE s

\* the status mainloop returns
mainloop_status(evos, current_evo, s) ==
    IF s = STATUS_TRAINING_FINISHED /\ has_next_evolution(evos, current_evo)
    THEN STATUS_TRAINING_UNFINISHED
    ELSE s

(***************************************************************************)
(* load_checkpoint                                                         *)
(***************************************************************************)
\* what load_checkpoint did: nothing yet, the call of optimistic_restore it
\* made, or "nothing to restore"
RestoreCall(path, ignore, remove) ==
    [call |-> "optimistic_restore", path |-> path, ignore_vars |-> ignore,
     remove_nonfinite_checkpoints |-> remove, raised |-> FALSE]
NoRestore ==
    [call |-> "none", path |-> NoPath, ignore_vars |-> {},
     remove_nonfinite_checkpoints |-> FALSE, raised |-> FALSE]
NothingToRestore == [NoRestore EXCEPT !.call = "nothing to restore"]

\* if checkpoint_filepath:
path_given(checkpoint_filepath) ==
    checkpoint_filepath /= NoPath /\ checkpoint_filepath /= EmptyPath

\* mutation: the step counter is excluded whatever the stage of the snapshot
snapshot_ignore_vars_always(current_evo, snapshot) == {"global_step"}

\* ignore_vars = ('global_step',) if the snapshot is of another evolution
snapshot_ignore_vars(current_evo, snapshot) ==
    IF current_evo /= snapshot[1] THEN {"global_step"} ELSE {}

\* mutation: the snapshot is preferred to the path given
load_checkpoint_prefers_snapshot(checkpoint_filepath, remove_nonfinite_checkpoints, current_evo, snapshot) ==
    IF snapshot /= NoSnapshot
    THEN RestoreCall(snapshot[3], snapshot_ignore_vars(current_evo, snapshot),
                     remove_nonfinite_checkpoints)
    ELSE IF path_given(checkpoint_filepath)
    THEN RestoreCall(checkpoint_filepath, {}, FALSE)
    ELSE NothingToRestore

\* variant: the snapshot is not tested for None
load_checkpoint_unguarded(checkpoint_filepath, remove_nonfinite_checkpoints, current_evo, snapshot) ==
    IF path_given(checkpoint_filepath)
    THEN RestoreCall(checkpoint_filepath, {}, FALSE)
    ELSE RestoreCall(IF snapshot /= NoSnapshot THEN snapshot[3] ELSE NoPath,
                     IF snapshot /= NoSnapshot
                     THEN snapshot_ignore_vars(current_evo, snapshot) ELSE {},
                     remove_nonfinite_checkpoints)

load_checkpoint(checkpoint_filepath, remove_nonfinite_checkpoints, current_evo, snapshot) ==
    IF path_given(checkpoint_filepath)
    THEN RestoreCall(checkpoint_filepath, {}, FALSE)
    ELSE IF snapshot /= NoSnapshot
    THEN RestoreCall(snapshot[3], snapshot_ignore_vars(current_evo, snapshot),
                     remove_nonfinite_checkpoints)
    ELSE NothingToRestore

\* optimistic_restore (helpers.py) with remove_nonfinite_checkpoints: a
\* checkpoint with nonfinite values is removed before the exception is raised
remove_checkpoint(C, dir, path) ==
    IF Len(path) = 3 /\ path[2] = dir /\ path[1] \in DOMAIN C
    THEN [C EXCEPT ![path[1]] = @ \ {path[3]}]
    ELSE C

(***************************************************************************)
(* _Evo and the comparison shortcuts                                       *)
(***************************************************************************)
CompareOps == {"eq", "ne", "lt", "le", "gt", "ge"}

\* operator.eq, operator.ne, operator.lt, operator.le, operator.gt, operator.ge
compare_op(op, a, b) ==
    CASE op = "eq" -> a = b
      [] op = "ne" -> a /= b
      [] op = "lt" -> a < b
      [] op = "le" -> a <= b
      [] op = "gt" -> a > b
      [] op = "ge" -> a >= b

\* _Evo(evolution, all_evolutions)
Evo(evolution, all_evolutions) ==
    [evolution |-> evolution, all_evolutions |-> all_evolutions]

\* what a query did: it raised ValueError('Unknown evolution') or returned
Raised(via, op, other) ==
    [via |-> via, op |-> op, other |-> other, raised |-> TRUE, value |-> FALSE]
Returned(via, op, other, value) ==
    [via |-> via, op |-> op, other |-> other, raised |-> FALSE, value |-> value]

\* mutation: the names are compared as strings
lexical == <<"a", "b", "c", "testlogs">>
evo_compare_lexical(self, via, op, other) ==
    IF other \notin Range(self.all_evolutions)
    THEN Raised(via, op, other)
    ELSE Returned(via, op, other,
                  compare_op(op, index(lexical, self.evolution),
                             index(lexical, other)))

evo_compare(self, via, op, other) ==
    IF other \notin Range(self.all_evolutions)
    THEN Raised(via, op, other)
    ELSE LET other_index == index(self.all_evolutions, other)
             evo_index == index(self.all_evolutions, self.evolution)
         IN Returned(via, op, other, compare_op(op, evo_index, other_index))

\* the property current_evo
current_evo(current_evolution_, evolutions_) ==
    Evo(current_evolution_, evolutions_)

\* current_evo_lt, _le, _gt, _ge, _eq, _ne
current_evo_shortcut(current_evolution_, evolutions_, op, evo) ==
    evo_compare(Evo(current_evolution_, evolutions_), "shortcut", op, evo)

current_evo_in(current_evolution_, evolutions_, evos) ==
    IF \E i \in 1..Len(evos) : evos[i] \notin Range(evolutions_)
    THEN Raised("shortcut", "in", evos)
    ELSE Returned("shortcut", "in", evos, current_evolution_ \in Range(evos))

(***************************************************************************)
(* The state machine.                                                      *)
(***************************************************************************)
\* no comparison made yet
NoQuery == Returned("none", "none", None, FALSE)
\* the invocation before this one: the evolution it resolved, whether by
\* force_evo, and whether its main loop finished the evolution; finishing
\* tells the same of the invocation that runs now
NoInvocation ==
    [evolution |-> None, forced |-> FALSE, finished |-> FALSE,
     finishing |-> FALSE]

Init ==
    /\ evolutions_arg \in EvolutionArgs
    /\ dirs = {}
    /\ checkpoints = [n \in Range(evolutions) |-> {}]
    /\ recovery_checkpoints = [n \in Range(evolutions) |-> {}]
    /\ pc = [p \in Procs |-> "none"]
    /\ force_evo = [p \in Procs |-> None]
    /\ error = [p \in Procs |-> None]
    /\ current_evolution = [p \in Procs |-> None]
    /\ init_snapshot = [p \in Procs |-> NoSnapshot]
    /\ simpletrainer = [p \in Procs |-> None]
    /\ trainer_status = [p \in Procs |-> None]
    /\ status = [p \in Procs |-> None]
    /\ restore = [p \in Procs |-> NoRestore]
    /\ query = [p \in Procs |-> NoQuery]
    /\ previous = NoInvocation

NumCheckpoints ==
    LET all == {<<n, d, it>> \in Range(evolutions) \X {1, 2} \X Iters :
                  it \in (IF d = 1 THEN checkpoints[n]
                          ELSE recovery_checkpoints[n])}
    IN Cardinality(all)

\* someone creates the directory of a stage
MakeStageDir(n) ==
    /\ n \notin dirs
    /\ dirs' = dirs \cup {n}
    /\ UNCHANGED <<evolutions_arg, checkpoints, recovery_checkpoints, pc, obj, ret>>

\* a single-stage trainer saves a checkpoint of stage n
SaveCheckpoint(n, it) ==
    /\ NumCheckpoints < MaxCheckpoints
    /\ it \notin checkpoints[n]
    /\ checkpoints' = [checkpoints EXCEPT ![n] = @ \cup {it}]
    /\ dirs' = dirs \cup {n}
    /\ UNCHANGED <<evolutions_arg, recovery_checkpoints, pc, obj, ret>>

\* a single-stage trainer saves a recovery checkpoint of stage n
SaveRecoveryCheckpoint(n, it) ==
    /\ NumCheckpoints < MaxCheckpoints
    /\ it \notin recovery_checkpoints[n]
    /\ recovery_checkpoints' = [recovery_checkpoints EXCEPT ![n] = @ \cup {it}]
    /\ dirs' = dirs \cup {n}
    /\ UNCHANGED <<evolutions_arg, checkpoints, pc, obj, ret>>

\* variant: __init__ creates the directory of the evolution it resolves
Construct_creating_the_directory(p, force) ==
    /\ pc[p] = "none"
    /\ \E o \in init(evolutions_arg, force, dirs, checkpoints,
                     recovery_checkpoints) :
        /\ pc' = [pc EXCEPT ![p] = o.pc]
        /\ error' = [error EXCEPT ![p] = o.error]
        /\ current_evolution' = [current_evolution EXCEPT ![p] = o.current_evolution]
        /\ init_snapshot' = [init_snapshot EXCEPT ![p] = o.init_snapshot]
        /\ simpletrainer' = [simpletrainer EXCEPT ![p] = o.simpletrainer]
        /\ dirs' = IF o.current_evolution /= None
                   THEN dirs \cup {o.current_evolution} ELSE dirs
    /\ force_evo' = [force_evo EXCEPT ![p] = force]
    /\ UNCHANGED <<evolutions_arg, checkpoints, recovery_checkpoints, ret>>

\* EvolutionTrainer(session, train_dir, evolutions, force)
Construct(p, force) ==
    /\ pc[p] = "none"
    /\ \E o \in init(evolutions_arg, force, dirs, checkpoints,
                     recovery_checkpoints) :
        /\ pc' = [pc EXCEPT ![p] = o.pc]
        /\ error' = [error EXCEPT ![p] = o.error]
        /\ current_evolution' = [current_evolution EXCEPT ![p] = o.current_evolution]
        /\ init_snapshot' = [init_snapshot EXCEPT ![p] = o.init_snapshot]
        /\ simpletrainer' = [simpletrainer EXCEPT ![p] = o.simpletrainer]
    /\ force_evo' = [force_evo EXCEPT ![p] = force]
    /\ UNCHANGED <<evolutions_arg, fs, ret>>

\* mainloop up to the call of self._simpletrainer.mainloop
MainloopCall(p) ==
    /\ pc[p] \in {"constructed", "returned"}
    /\ pc' = [pc EXCEPT ![p] = "mainloop"]
    /\ trainer_status' = [trainer_status EXCEPT ![p] = None]
    /\ status' = [status EXCEPT ![p] = None]
    /\ UNCHANGED <<evolutions_arg, fs, obj>>

\* variant: mainloop resolves the evolution and the snapshot again
MainloopReturn_resolving_again(p, s) ==
    /\ pc[p] = "mainloop"
    /\ pc' = [pc EXCEPT ![p] = "returned"]
    /\ trainer_status' = [trainer_status EXCEPT ![p] = s]
    /\ dirs' = mainloop_dirs(evolutions, current_evolution[p], s, dirs)
    /\ status' = [status EXCEPT ![p] =
                     mainloop_status(evolutions, current_evolution[p], s)]
    /\ \E r \in retrieve_current_evolution_and_last_snapshot(
                   evolutions, force_evo[p], dirs', checkpoints,
                   recovery_checkpoints) :
         /\ current_evolution' = [current_evolution EXCEPT ![p] = r[1]]
         /\ init_snapshot' = [init_snapshot EXCEPT ![p] = r[2]]
    /\ UNCHANGED <<evolutions_arg, checkpoints, recovery_checkpoints, force_evo,
                   error, simpletrainer>>

\* self._simpletrainer.mainloop returns s; mainloop runs to its return
MainloopReturn(p, s) ==
    /\ pc[p] = "mainloop"
    /\ trainer_status' = [trainer_status EXCEPT ![p] = s]
    /\ IF mainloop_raises(evolutions, current_evolution[p], s, dirs)
       THEN /\ pc' = [pc EXCEPT ![p] = "raised"]
            /\ error' = [error EXCEPT ![p] = ErrFileExists]
            /\ UNCHANGED <<dirs, status>>
       ELSE /\ pc' = [pc EXCEPT ![p] = "returned"]
            /\ dirs' = mainloop_dirs(evolutions, current_evolution[p], s, dirs)
            /\ status' = [status EXCEPT ![p] =
                             mainloop_status(evolutions, current_evolution[p], s)]
            /\ UNCHANGED error
    /\ UNCHANGED <<evolutions_arg, checkpoints, recovery_checkpoints, force_evo,
                   current_evolution, init_snapshot, simpletrainer>>

\* the process ends: the exception propagated, or the caller is done
Exit(p) ==
    /\ pc[p] \in {"constructed", "returned", "failed", "raised"}
    /\ pc' = [pc EXCEPT ![p] = "none"]
    /\ force_evo' = [force_evo EXCEPT ![p] = None]
    /\ error' = [error EXCEPT ![p] = None]
    /\ current_evolution' = [current_evolution EXCEPT ![p] = None]
    /\ init_snapshot' = [init_snapshot EXCEPT ![p] = NoSnapshot]
    /\ simpletrainer' = [simpletrainer EXCEPT ![p] = None]
    /\ trainer_status' = [trainer_status EXCEPT ![p] = None]
    /\ status' = [status EXCEPT ![p] = None]
    /\ UNCHANGED <<evolutions_arg, fs>>

\* the directory tree changes in any way, and one process at a time
\* constructs a controller and runs its main loop
Next ==
    \/ \E n \in Range(evolutions) :
          MakeStageDir(n) /\ UNCHANGED <<calls, previous>>
    \/ \E n \in Range(evolutions), it \in Iters :
          SaveCheckpoint(n, it) /\ UNCHANGED <<calls, previous>>
    \/ \E n \in Range(evolutions), it \in Iters :
          SaveRecoveryCheckpoint(n, it) /\ UNCHANGED <<calls, previous>>
    \/ \E p \in Procs, force \in ForceArgs :
          Construct(p, force) /\ UNCHANGED <<calls, previous>>
    \/ \E p \in Procs :
          MainloopCall(p) /\ UNCHANGED <<calls, previous>>
    \/ \E p \in Procs, s \in TrainerStatus :
          MainloopReturn(p, s) /\ UNCHANGED <<calls, previous>>
    \/ \E p \in Procs :
          Exit(p) /\ UNCHANGED <<calls, previous>>

Spec == Init /\ [][Next]_vars

(***************************************************************************)
(* The training job: one process at a time constructs a controller, loads  *)
(* a checkpoint and runs the main loop; the directory tree is changed by   *)
(* the controller and its single-stage trainer alone.                      *)
(***************************************************************************)
\* the checkpoint_filepath argument
PathArgs == {NoPath, EmptyPath, <<"elsewhere", "model.ckpt", 0>>}

\* load_checkpoint(checkpoint_filepath, remove_nonfinite_checkpoints)
LoadCheckpoint(p, checkpoint_filepath, remove_nonfinite_checkpoints) ==
    /\ pc[p] \in {"constructed", "returned"}
    /\ LET c == load_checkpoint(checkpoint_filepath, remove_nonfinite_checkpoints,
                                current_evolution[p], init_snapshot[p])
       IN \E nonfinite \in (IF c.remove_nonfinite_checkpoints
                             THEN BOOLEAN ELSE {FALSE}) :
            /\ restore' = [restore EXCEPT ![p] = [c EXCEPT !.raised = nonfinite]]
            /\ query' = [query EXCEPT ![p] = NoQuery]
            /\ checkpoints' =
                 IF nonfinite
                 THEN remove_checkpoint(checkpoints, CHECKPOINTS_DIR, c.path)
                 ELSE checkpoints
            /\ recovery_checkpoints' =
                 IF nonfinite
                 THEN remove_checkpoint(recovery_checkpoints,
                                        RECOVERY_CHECKPOINTS_DIR, c.path)
                 ELSE recovery_checkpoints
    /\ UNCHANGED <<evolutions_arg, dirs, pc, obj, ret, previous>>

\* the names and the lists of names a stage is compared with
OtherArgs == StageNames \cup {"z"}
InArgs == {<< >>, <<"b">>, <<"a", "c">>, <<"b", "z">>}

\* current_evo <op> other, and current_evo_<op>(other)
Compare(p, via, op, other) ==
    /\ pc[p] \in {"constructed", "returned"}
    /\ query' = [query EXCEPT ![p] =
                    IF via = "operator"
                    THEN evo_compare(current_evo(current_evolution[p], evolutions),
                                     "operator", op, other)
                    ELSE current_evo_shortcut(current_evolution[p], evolutions,
                                              op, other)]
    /\ restore' = [restore EXCEPT ![p] = NoRestore]
    /\ UNCHANGED <<evolutions_arg, fs, pc, obj, ret, previous>>

\* the accessors current_evo.name() and init_snapshot()
Accessors == {"current_evo", "init_snapshot"}
Accessor(p, name) ==
    /\ pc[p] \in {"constructed", "returned"}
    /\ query' = [query EXCEPT ![p] =
                    Returned("accessor", name, None,
                             IF name = "current_evo"
                             THEN current_evo(current_evolution[p],
                                              evolutions).evolution
                             ELSE init_snapshot[p])]
    /\ restore' = [restore EXCEPT ![p] = NoRestore]
    /\ UNCHANGED <<evolutions_arg, fs, pc, obj, ret, previous>>

\* current_evo_in(evos)
CurrentEvoIn(p, evos) ==
    /\ pc[p] \in {"constructed", "returned"}
    /\ query' = [query EXCEPT ![p] =
                    current_evo_in(current_evolution[p], evolutions, evos)]
    /\ restore' = [restore EXCEPT ![p] = NoRestore]
    /\ UNCHANGED <<evolutions_arg, fs, pc, obj, ret, previous>>

JobConstruct(p, force) ==
    /\ Construct(p, force)
    /\ UNCHANGED <<calls, previous>>

\* what the calls before the main loop did is forgotten
JobMainloopCall(p) ==
    /\ MainloopCall(p)
    /\ restore' = [restore EXCEPT ![p] = NoRestore]
    /\ query' = [query EXCEPT ![p] = NoQuery]
    /\ UNCHANGED previous

\* the single-stage trainer of p saves a checkpoint while its main loop
\* runs: the one after the last it has on disk
TrainerSave(p, it) ==
    /\ pc[p] = "mainloop"
    /\ it = Cardinality(checkpoints[simpletrainer[p]]) + 1
    /\ SaveCheckpoint(simpletrainer[p], it)
    /\ UNCHANGED <<calls, previous>>

TrainerSaveRecovery(p, it) ==
    /\ pc[p] = "mainloop"
    /\ it = Cardinality(recovery_checkpoints[simpletrainer[p]]) + 1
    /\ SaveRecoveryCheckpoint(simpletrainer[p], it)
    /\ UNCHANGED <<calls, previous>>

JobMainloopReturn(p, s) ==
    /\ MainloopReturn(p, s)
    /\ UNCHANGED <<calls, previous>>

JobExit(p) ==
    /\ Exit(p)
    /\ restore' = [restore EXCEPT ![p] = NoRestore]
    /\ query' = [query EXCEPT ![p] = NoQuery]
    /\ UNCHANGED previous

\* the calls of the job: every one before the main loop, and after it
\* load_checkpoint(), a comparison and init_snapshot()
JobLoadCheckpoint(p, path, remove) ==
    /\ pc[p] = "constructed" \/ (path = NoPath /\ ~remove)
    /\ LoadCheckpoint(p, path, remove)

JobCompare(p, other) ==
    /\ pc[p] = "constructed" \/ other = StageOrder[1]
    /\ Compare(p, "shortcut", "gt", other)

JobCurrentEvoIn(p) ==
    /\ pc[p] = "constructed"
    /\ CurrentEvoIn(p, <<StageOrder[1]>>)

JobAccessor(p, name) ==
    /\ pc[p] = "constructed" \/ name = "init_snapshot"
    /\ Accessor(p, name)

JobNext ==
    \/ \E p \in Procs, force \in ForceArgs : JobConstruct(p, force)
    \/ \E p \in Procs, path \in PathArgs, remove \in BOOLEAN :
          JobLoadCheckpoint(p, path, remove)
    \/ \E p \in Procs, other \in {StageOrder[1], "z"} : JobCompare(p, other)
    \/ \E p \in Procs : JobCurrentEvoIn(p)
    \/ \E p \in Procs, name \in Accessors : JobAccessor(p, name)
    \/ \E p \in Procs : JobMainloopCall(p)
    \/ \E p \in Procs, it \in Iters : TrainerSave(p, it)
    \/ \E p \in Procs, it \in Iters : TrainerSaveRecovery(p, it)
    \/ \E p \in Procs, s \in TrainerStatus : JobMainloopReturn(p, s)
    \/ \E p \in Procs : JobExit(p)

SpecJob == Init /\ [][JobNext]_vars

(***************************************************************************)
(* Restarts: one invocation after the other, each remembered by the next.  *)
(***************************************************************************)
\* the invocation that ends is remembered if it has resolved its evolution
remember(p) ==
    IF current_evolution[p] /= None
    THEN [evolution |-> current_evolution[p], forced |-> Truthy(force_evo[p]),
          finished |-> previous.finishing, finishing |-> FALSE]
    ELSE previous

RestartMainloopReturn(p, s) ==
    /\ MainloopReturn(p, s)
    /\ previous' = IF s = STATUS_TRAINING_FINISHED
                   THEN [previous EXCEPT !.finishing = TRUE]
                   ELSE previous
    /\ UNCHANGED calls

RestartExit(p) ==
    /\ Exit(p)
    /\ previous' = remember(p)
    /\ UNCHANGED calls

RestartNext ==
    \/ \E p \in Procs, force \in ForceArgs : JobConstruct(p, force)
    \/ \E p \in Procs : JobMainloopCall(p)
    \/ \E p \in Procs, it \in Iters : TrainerSave(p, it)
    \/ \E p \in Procs, it \in Iters : TrainerSaveRecovery(p, it)
    \/ \E p \in Procs, s \in TrainerStatus : RestartMainloopReturn(p, s)
    \/ \E p \in Procs : RestartExit(p)

SpecRestart == Init /\ [][RestartNext]_vars

(***************************************************************************)
(* The caller's loop: on a train_dir that is empty at first, construct a   *)
(* controller without force_evo, call load_checkpoint() and mainloop(),    *)
(* and start again while the status is 'unfinished'.  The process may be   *)
(* interrupted while the main loop runs.                                   *)
(***************************************************************************)
\* the stage lists __init__ accepts
LoopInit ==
    /\ Init
    /\ evolutions_arg.kind \in {"list", "tuple"}
    /\ evolutions /= << >>
    /\ check_evolution_names(evolutions) = None

LoopConstruct(p) == JobConstruct(p, None)

LoopLoadCheckpoint(p) ==
    /\ pc[p] = "constructed"
    /\ restore[p] = NoRestore
    /\ LoadCheckpoint(p, NoPath, FALSE)

LoopMainloopCall(p) ==
    /\ restore[p] /= NoRestore
    /\ pc[p] = "constructed"
    /\ JobMainloopCall(p)

\* the single-stage trainer saves a checkpoint; the first one of a stage
\* is saved whatever the number of checkpoints on disk
LoopTrainerSave(p, it) ==
    /\ pc[p] = "mainloop"
    /\ it \notin checkpoints[simpletrainer[p]]
    /\ checkpoints[simpletrainer[p]] = {} \/ NumCheckpoints < MaxCheckpoints
    /\ checkpoints' = [checkpoints EXCEPT ![simpletrainer[p]] = @ \cup {it}]
    /\ dirs' = dirs \cup {simpletrainer[p]}
    /\ UNCHANGED <<evolutions_arg, recovery_checkpoints, pc, obj, ret, calls,
                   previous>>

\* the single-stage trainer stops before the end of the stage
LoopTrainerUnfinished(p) ==
    RestartMainloopReturn(p, STATUS_TRAINING_UNFINISHED)

\* the single-stage trainer finishes the stage, a checkpoint of it saved
LoopTrainerFinished(p) ==
    /\ pc[p] = "mainloop"
    /\ checkpoints[simpletrainer[p]] /= {}
    /\ RestartMainloopReturn(p, STATUS_TRAINING_FINISHED)

\* the caller's loop starts again
LoopRestart(p) ==
    /\ pc[p] = "returned"
    /\ status[p] = STATUS_TRAINING_UNFINISHED
    /\ Exit(p)
    /\ restore' = [restore EXCEPT ![p] = NoRestore]
    /\ previous' = remember(p)
    /\ UNCHANGED query

\* the process is killed while the main loop runs, and started again
LoopInterrupt(p) ==
    /\ pc[p] = "mainloop"
    /\ pc' = [pc EXCEPT ![p] = "none"]
    /\ force_evo' = [force_evo EXCEPT ![p] = None]
    /\ error' = [error EXCEPT ![p] = None]
    /\ current_evolution' = [current_evolution EXCEPT ![p] = None]
    /\ init_snapshot' = [init_snapshot EXCEPT ![p] = NoSnapshot]
    /\ simpletrainer' = [simpletrainer EXCEPT ![p] = None]
    /\ trainer_status' = [trainer_status EXCEPT ![p] = None]
    /\ status' = [status EXCEPT ![p] = None]
    /\ restore' = [restore EXCEPT ![p] = NoRestore]
    /\ previous' = remember(p)
    /\ UNCHANGED <<evolutions_arg, fs, query>>

LoopNext ==
    \/ \E p \in Procs : LoopConstruct(p)
    \/ \E p \in Procs : LoopLoadCheckpoint(p)
    \/ \E p \in Procs : LoopMainloopCall(p)
    \/ \E p \in Procs, it \in Iters : LoopTrainerSave(p, it)
    \/ \E p \in Procs, it \in Iters : TrainerSaveRecovery(p, it)
    \/ \E p \in Procs : LoopTrainerUnfinished(p)
    \/ \E p \in Procs : LoopTrainerFinished(p)
    \/ \E p \in Procs : LoopRestart(p)
    \/ \E p \in Procs : LoopInterrupt(p)

\* the caller's steps are taken; a main loop that runs again and again
\* saves a checkpoint and finishes its stage at last
LoopFairness ==
    /\ WF_vars(\E p \in Procs : LoopConstruct(p))
    /\ WF_vars(\E p \in Procs : LoopLoadCheckpoint(p))
    /\ WF_vars(\E p \in Procs : LoopMainloopCall(p))
    /\ WF_vars(\E p \in Procs : LoopRestart(p))
    /\ SF_vars(\E p \in Procs, it \in Iters : LoopTrainerSave(p, it))
    /\ SF_vars(\E p \in Procs : LoopTrainerFinished(p))

SpecLoop == LoopInit /\ [][LoopNext]_vars /\ LoopFairness

(***************************************************************************)
(* The race: two processes run controllers on one directory tree that is   *)
(* there already.                                                          *)
(***************************************************************************)
RaceProcs == {"p1", "p2"}

RaceInit ==
    /\ evolutions_arg \in EvolutionArgs
    /\ dirs \in SUBSET Range(evolutions)
    /\ \E seeded \in SUBSET dirs :
          checkpoints = [n \in Range(evolutions) |->
                           IF n \in seeded THEN {1} ELSE {}]
    /\ recovery_checkpoints = [n \in Range(evolutions) |-> {}]
    /\ pc = [p \in RaceProcs |-> "none"]
    /\ force_evo = [p \in RaceProcs |-> None]
    /\ error = [p \in RaceProcs |-> None]
    /\ current_evolution = [p \in RaceProcs |-> None]
    /\ init_snapshot = [p \in RaceProcs |-> NoSnapshot]
    /\ simpletrainer = [p \in RaceProcs |-> None]
    /\ trainer_status = [p \in RaceProcs |-> None]
    /\ status = [p \in RaceProcs |-> None]
    /\ restore = [p \in RaceProcs |-> NoRestore]
    /\ query = [p \in RaceProcs |-> NoQuery]
    /\ previous = NoInvocation

RaceNext ==
    \/ \E p \in RaceProcs, force \in ForceArgs : JobConstruct(p, force)
    \/ \E p \in RaceProcs : JobMainloopCall(p)
    \/ \E p \in RaceProcs, s \in TrainerStatus : JobMainloopReturn(p, s)
    \/ \E p \in RaceProcs : JobExit(p)

SpecRace == RaceInit /\ [][RaceNext]_vars

(***************************************************************************)
(* The queries: a controller is constructed on a directory tree that is    *)
(* there already, and its current stage is compared with names.            *)
(***************************************************************************)
QueryInit ==
    /\ evolutions_arg \in EvolutionArgs
    /\ dirs \in SUBSET Range(evolutions)
    /\ \E seeded \in SUBSET dirs :
          checkpoints = [n \in Range(evolutions) |->
                           IF n \in seeded THEN {1} ELSE {}]
    /\ recovery_checkpoints = [n \in Range(evolutions) |-> {}]
    /\ pc = [p \in Procs |-> "none"]
    /\ force_evo = [p \in Procs |-> None]
    /\ error = [p \in Procs |-> None]
    /\ current_evolution = [p \in Procs |-> None]
    /\ init_snapshot = [p \in Procs |-> NoSnapshot]
    /\ simpletrainer = [p \in Procs |-> None]
    /\ trainer_status = [p \in Procs |-> None]
    /\ status = [p \in Procs |-> None]
    /\ restore = [p \in Procs |-> NoRestore]
    /\ query = [p \in Procs |-> NoQuery]
    /\ previous = NoInvocation

QueryNext ==
    \/ \E p \in Procs, force \in ForceArgs : JobConstruct(p, force)
    \/ \E p \in Procs, via \in {"operator", "shortcut"}, op \in CompareOps,
          other \in OtherArgs : Compare(p, via, op, other)
    \/ \E p \in Procs, evos \in InArgs : CurrentEvoIn(p, evos)
    \/ \E p \in Procs, name \in Accessors : Accessor(p, name)
    \/ \E p \in Procs : JobExit(p)

SpecQuery == QueryInit /\ [][QueryNext]_vars

(***************************************************************************)
(* Vocabulary of the properties.                                           *)
(***************************************************************************)
\* the step in which __init__ runs, and the one in which mainloop returns
ConstructStep(p) == pc[p] = "none" /\ pc'[p] /= "none"
ReturnStep(p) == pc[p] = "mainloop" /\ pc'[p] = "returned"

Alive(p) == pc[p] \in {"constructed", "mainloop", "returned"}

\* one-based position of a stage in the stage list
Pos(e) == CHOOSE i \in 1..Len(evolutions) : evolutions[i] = e
IsFirst(e) == e = evolutions[1]
IsLast(e) == e = evolutions[Len(evolutions)]
Successor(e) == evolutions[Pos(e) + 1]
Predecessor(e) == evolutions[Pos(e) - 1]

HasReservedName == \E i \in 1..Len(evolutions) : evolutions[i] \in invalid_names
HasDuplicate ==
    \E i, j \in 1..Len(evolutions) : i /= j /\ evolutions[i] = evolutions[j]
IsEmpty == evolutions = << >>
\* a non-empty, duplicate-free list or tuple of names that are not reserved
ValidStageList ==
    /\ evolutions_arg.kind \in {"list", "tuple"}
    /\ ~IsEmpty /\ ~HasDuplicate /\ ~HasReservedName

Highest(S) == CHOOSE x \in S : \A y \in S : y <= x
\* the stage with the highest list index whose directory exists, else the first
HighestExistingStage ==
    LET E == {i \in 1..Len(evolutions) : evolutions[i] \in dirs}
    IN IF E = {} THEN evolutions[1] ELSE evolutions[Highest(E)]

\* the checkpoint iterations a stage has on disk
AllIterations(e) == checkpoints[e] \cup recovery_checkpoints[e]
\* a path names a checkpoint file of stage e that is on disk
OnDisk(e, path) ==
    /\ path[1] = e
    /\ \/ path[2] = CHECKPOINTS_DIR /\ path[3] \in checkpoints[e]
       \/ path[2] = RECOVERY_CHECKPOINTS_DIR /\ path[3] \in recovery_checkpoints[e]

(***************************************************************************)
(* mainloop                                                                *)
(***************************************************************************)
\* C1: when the single-stage trainer returns "finished" and the current
\* stage is not the last, then on return the next stage's directory exists
\* and mainloop returns "unfinished".
C1_FinishedAdvances ==
    [][\A p \in Procs :
         (/\ ReturnStep(p)
          /\ trainer_status'[p] = STATUS_TRAINING_FINISHED
          /\ ~IsLast(current_evolution[p]))
         => /\ Successor(current_evolution[p]) \in dirs'
            /\ status'[p] = STATUS_TRAINING_UNFINISHED]_vars

C1_Witness ==
    \E p \in Procs :
        /\ pc[p] = "returned"
        /\ trainer_status[p] = STATUS_TRAINING_FINISHED
        /\ ~IsLast(current_evolution[p])
        /\ Successor(current_evolution[p]) \in dirs
        /\ status[p] = STATUS_TRAINING_UNFINISHED

\* C2: when the single-stage trainer returns "finished" and the current
\* stage is the last, mainloop returns "finished" and creates no directory;
\* mainloop returns "finished" only when the current stage is the last.
C2_LastStageFinishes ==
    [][\A p \in Procs :
         ReturnStep(p) =>
           /\ (trainer_status'[p] = STATUS_TRAINING_FINISHED
               /\ IsLast(current_evolution[p]))
              => (status'[p] = STATUS_TRAINING_FINISHED /\ dirs' = dirs)
           /\ status'[p] = STATUS_TRAINING_FINISHED
              => IsLast(current_evolution[p])]_vars

C2_Witness ==
    \E p \in Procs :
        /\ pc[p] = "returned"
        /\ trainer_status[p] = STATUS_TRAINING_FINISHED
        /\ Len(evolutions) > 1
        /\ IsLast(current_evolution[p])
        /\ status[p] = STATUS_TRAINING_FINISHED

\* C3: every status of the single-stage trainer other than "finished" is
\* returned as it is, and the stage directories are left as they were.
C3_OtherStatusPassesThrough ==
    [][\A p \in Procs :
         (ReturnStep(p) /\ trainer_status'[p] /= STATUS_TRAINING_FINISHED)
         => (status'[p] = trainer_status'[p] /\ dirs' = dirs)]_vars

C3_Witness ==
    \E p \in Procs :
        /\ pc[p] = "returned"
        /\ trainer_status[p] = STATUS_TRAINING_NAN_LOSS
        /\ status[p] = STATUS_TRAINING_NAN_LOSS
        /\ ~IsLast(current_evolution[p])
        /\ Successor(current_evolution[p]) \notin dirs

(***************************************************************************)
(* resolution of the current stage                                         *)
(***************************************************************************)
\* C4: without an override the current stage is the one with the highest
\* list index whose directory exists, whatever is missing below it, and the
\* first stage when no stage directory exists.
C4_HighestExistingDirectory ==
    [][\A p \in Procs :
         (ConstructStep(p) /\ ValidStageList /\ force_evo'[p] = None)
         => current_evolution'[p] = HighestExistingStage]_vars

C4_Witness ==
    \E p \in Procs :
        /\ pc[p] = "constructed"
        /\ force_evo[p] = None
        /\ Len(evolutions) = 3
        /\ current_evolution[p] = evolutions[3]
        /\ evolutions[1] \in dirs
        /\ evolutions[2] \notin dirs

\* C5: with an override and a valid stage list, an override that is not in
\* the list makes construction fail with the "not in the evolution list"
\* error, and one that is in the list is the current stage whatever
\* directories exist.
C5_ForcedStage ==
    [][\A p \in Procs :
         (ConstructStep(p) /\ ValidStageList /\ force_evo'[p] /= None)
         => IF force_evo'[p] \in Range(evolutions)
            THEN current_evolution'[p] = force_evo'[p]
            ELSE pc'[p] = "failed" /\ error'[p] = ErrForceNotInList]_vars

C5_Witness ==
    \E p \in Procs :
        /\ pc[p] = "constructed"
        /\ force_evo[p] /= None
        /\ current_evolution[p] = force_evo[p]
        /\ force_evo[p] \notin dirs
        /\ \E e \in dirs : Pos(e) > Pos(force_evo[p])

(***************************************************************************)
(* resolution of the snapshot                                              *)
(***************************************************************************)
\* C6: if the current stage has a checkpoint in its checkpoint or its
\* recovery checkpoint directory, the snapshot carries the current stage's
\* name and is a checkpoint of the highest iteration of both directories.
C6_SnapshotOfCurrentStage ==
    [][\A p \in Procs :
         (/\ ConstructStep(p)
          /\ current_evolution'[p] /= None
          /\ AllIterations(current_evolution'[p]) /= {})
         => /\ init_snapshot'[p] /= NoSnapshot
            /\ init_snapshot'[p][1] = current_evolution'[p]
            /\ init_snapshot'[p][2] = Highest(AllIterations(current_evolution'[p]))
            /\ init_snapshot'[p][3][3] = init_snapshot'[p][2]
            /\ OnDisk(current_evolution'[p], init_snapshot'[p][3])]_vars

C6_Witness ==
    \E p \in Procs :
        /\ pc[p] = "constructed"
        /\ ~IsFirst(current_evolution[p])
        /\ checkpoints[Predecessor(current_evolution[p])] /= {}
        /\ checkpoints[current_evolution[p]] = {2}
        /\ recovery_checkpoints[current_evolution[p]] = {1}
        /\ init_snapshot[p] =
             <<current_evolution[p], 2,
               checkpoint_path(current_evolution[p], CHECKPOINTS_DIR, 2)>>

\* C7: if the current stage has no checkpoint and the previous stage has
\* one in its checkpoint directory, the snapshot carries the previous
\* stage's name and is that directory's checkpoint of the highest iteration,
\* in whatever order the checkpoints are retrieved.
C7_SnapshotOfPreviousStage ==
    [][\A p \in Procs :
         (/\ ConstructStep(p)
          /\ current_evolution'[p] /= None
          /\ ~IsFirst(current_evolution'[p])
          /\ AllIterations(current_evolution'[p]) = {}
          /\ checkpoints[Predecessor(current_evolution'[p])] /= {})
         => init_snapshot'[p] =
              <<Predecessor(current_evolution'[p]),
                Highest(checkpoints[Predecessor(current_evolution'[p])]),
                checkpoint_path(
                    Predecessor(current_evolution'[p]), CHECKPOINTS_DIR,
                    Highest(checkpoints[Predecessor(current_evolution'[p])]))>>]_vars

\* C8: a recovery checkpoint of the previous stage is never the snapshot;
\* with no checkpoint of the current stage and only recovery checkpoints of
\* the previous stage there is no snapshot.
C8_NoRecoveryFallback ==
    [][\A p \in Procs :
         (ConstructStep(p) /\ current_evolution'[p] /= None)
         => /\ (/\ init_snapshot'[p] /= NoSnapshot
                /\ init_snapshot'[p][1] /= current_evolution'[p])
               => init_snapshot'[p][3][2] = CHECKPOINTS_DIR
            /\ (/\ ~IsFirst(current_evolution'[p])
                /\ AllIterations(current_evolution'[p]) = {}
                /\ checkpoints[Predecessor(current_evolution'[p])] = {})
               => init_snapshot'[p] = NoSnapshot]_vars

C8_Witness ==
    \E p \in Procs :
        /\ pc[p] = "failed"
        /\ current_evolution[p] /= None
        /\ ~IsFirst(current_evolution[p])
        /\ AllIterations(current_evolution[p]) = {}
        /\ checkpoints[Predecessor(current_evolution[p])] = {}
        /\ recovery_checkpoints[Predecessor(current_evolution[p])] /= {}
        /\ init_snapshot[p] = NoSnapshot

(***************************************************************************)
(* construction                                                            *)
(***************************************************************************)
\* C9: a constructed controller has the first stage as its current stage or
\* has a snapshot of the current or of the previous stage; a resolved stage
\* that is not the first and has no snapshot makes construction fail, and
\* then no single-stage trainer exists.
C9_SeedSnapshotOrFirstStage ==
    \A p \in Procs :
        /\ Alive(p) =>
             /\ simpletrainer[p] = current_evolution[p]
             /\ \/ IsFirst(current_evolution[p])
                \/ /\ init_snapshot[p] /= NoSnapshot
                   /\ init_snapshot[p][1] \in
                        {current_evolution[p], Predecessor(current_evolution[p])}
        /\ (/\ current_evolution[p] /= None
            /\ ~IsFirst(current_evolution[p])
            /\ init_snapshot[p] = NoSnapshot)
           => /\ pc[p] = "failed"
              /\ error[p] = ErrNoInitSnapshot
              /\ simpletrainer[p] = None
        /\ pc[p] = "failed" => simpletrainer[p] = None

C9_Witness ==
    \E p \in Procs :
        /\ pc[p] = "failed"
        /\ error[p] = ErrNoInitSnapshot
        /\ force_evo[p] = None
        /\ current_evolution[p] = evolutions[2]
        /\ init_snapshot[p] = NoSnapshot

\* the configuration error that belongs to each fault of the stage list
ListErrors ==
    (IF HasReservedName THEN {ErrInvalidName} ELSE {})
    \cup (IF HasDuplicate THEN {ErrDuplicate} ELSE {})
    \cup (IF IsEmpty THEN {ErrEmpty} ELSE {})

\* C10 as claimed: with a non-empty, duplicate-free stage list without
\* reserved names construction succeeds in every state of the directory
\* tree, and a faulty list raises the error of one of its faults.
C10_ValidListAlwaysConstructs ==
    \A p \in Procs :
        /\ (ValidStageList /\ force_evo[p] = None) => pc[p] /= "failed"
        /\ (pc[p] /= "none" /\ ListErrors /= {})
           => (pc[p] = "failed" /\ error[p] \in ListErrors)

\* the stage the resolution yields for an override f in the list, or none
ExpectedStage(f) == IF f = None THEN HighestExistingStage ELSE f
\* stage e is the first, or a checkpoint that can seed it is on disk
HasSeed(e) ==
    \/ IsFirst(e)
    \/ AllIterations(e) /= {}
    \/ checkpoints[Predecessor(e)] /= {}

\* C10 as amended: with a valid stage list construction succeeds exactly
\* when the override, if given, is in the list and the resolved stage is
\* the first or has a seed checkpoint on disk; otherwise it raises the
\* error of the override or of the missing snapshot. A faulty list raises
\* the error of one of its faults.
C10_ConstructionOutcome ==
    [][\A p \in Procs :
         ConstructStep(p) =>
           /\ ValidStageList =>
                IF force_evo'[p] /= None /\ force_evo'[p] \notin Range(evolutions)
                THEN pc'[p] = "failed" /\ error'[p] = ErrForceNotInList
                ELSE IF HasSeed(ExpectedStage(force_evo'[p]))
                THEN pc'[p] = "constructed" /\ error'[p] = None
                ELSE pc'[p] = "failed" /\ error'[p] = ErrNoInitSnapshot
           /\ ListErrors /= {}
                => (pc'[p] = "failed" /\ error'[p] \in ListErrors)]_vars

C10_Witness ==
    \E p \in Procs :
        /\ ValidStageList
        /\ pc[p] = "constructed"
        /\ force_evo[p] = None
        /\ ~IsFirst(current_evolution[p])
        /\ Len(evolutions) = 3

(***************************************************************************)
(* load_checkpoint                                                         *)
(***************************************************************************)
\* C11: load_checkpoint() without a path, on a controller with a resolved
\* snapshot, calls optimistic_restore with the path of the snapshot, and
\* excludes global_step, and nothing else, if and only if the stage of the
\* snapshot is not the current stage.
C11_LoadFromSnapshot ==
    [][\A p \in Procs, remove \in BOOLEAN :
         (LoadCheckpoint(p, NoPath, remove) /\ init_snapshot[p] /= NoSnapshot)
         => /\ restore'[p].call = "optimistic_restore"
            /\ restore'[p].path = init_snapshot[p][3]
            /\ restore'[p].ignore_vars \subseteq {"global_step"}
            /\ ("global_step" \in restore'[p].ignore_vars)
                 <=> (init_snapshot[p][1] /= current_evolution[p])]_vars

C11_Witness ==
    \E p \in Procs :
        /\ Alive(p)
        /\ init_snapshot[p] /= NoSnapshot
        /\ init_snapshot[p][1] /= current_evolution[p]
        /\ restore[p].call = "optimistic_restore"
        /\ restore[p].path = init_snapshot[p][3]
        /\ restore[p].ignore_vars = {"global_step"}

\* the paths that name a file
ExplicitPaths == PathArgs \ {NoPath, EmptyPath}

\* C12: load_checkpoint with a path that names a file calls
\* optimistic_restore with that path, whatever the snapshot is: no variable
\* is excluded, and remove_nonfinite_checkpoints is not passed on, so that no
\* checkpoint is removed and the flag changes nothing.
C12_LoadFromExplicitPath ==
    [][\A p \in Procs, path \in ExplicitPaths, remove \in BOOLEAN :
         LoadCheckpoint(p, path, remove)
         => /\ restore'[p] = RestoreCall(path, {}, FALSE)
            /\ UNCHANGED fs]_vars

C12_Witness ==
    \E p \in Procs :
        /\ Alive(p)
        /\ init_snapshot[p] /= NoSnapshot
        /\ init_snapshot[p][1] /= current_evolution[p]
        /\ restore[p] = RestoreCall(<<"elsewhere", "model.ckpt", 0>>, {}, FALSE)

(***************************************************************************)
(* comparisons                                                             *)
(***************************************************************************)
\* the relation a query applies, on positions in the stage list
Relation(op, i, j) ==
    \/ op \in {"eq", "le", "ge"} /\ i = j
    \/ op \in {"ne", "lt", "le"} /\ i < j
    \/ op \in {"ne", "gt", "ge"} /\ i > j

\* C13: a relational query of the current stage against a name, by operator
\* or by shortcut, raises the unknown evolution error if the name is not in
\* the stage list, and otherwise returns the relation applied to the
\* positions of the two names in the stage list.
C13_ComparisonByPosition ==
    \A p \in Procs :
        query[p].op \in CompareOps =>
            IF \E i \in 1..Len(evolutions) : evolutions[i] = query[p].other
            THEN /\ ~query[p].raised
                 /\ query[p].value <=>
                      Relation(query[p].op, Pos(current_evolution[p]),
                               Pos(query[p].other))
            ELSE query[p].raised

\* "b" is before "a" in the list: b < a holds by position, not by spelling
C13_Witness ==
    \E p \in Procs :
        /\ evolutions = <<"b", "a", "c">>
        /\ current_evolution[p] = "b"
        /\ query[p] = Returned("shortcut", "lt", "a", TRUE)

(***************************************************************************)
(* restarts                                                                *)
(***************************************************************************)
\* a controller constructed without force_evo, main loop not yet called,
\* after an invocation that finished a stage that has a next stage
ResolvedAfterFinished(p) ==
    /\ pc[p] \in {"constructed", "failed"}
    /\ current_evolution[p] /= None
    /\ force_evo[p] = None
    /\ previous.finished
    /\ ~IsLast(previous.evolution)

\* a directory of a stage after stage e exists
LaterStageExists(e) ==
    \E j \in 1..Len(evolutions) : j > Pos(e) /\ evolutions[j] \in dirs

FinishedWithNext(p) ==
    /\ pc[p] \in {"returned", "raised"}
    /\ trainer_status[p] = STATUS_TRAINING_FINISHED
    /\ ~IsLast(current_evolution[p])

\* C15: whatever processes finish a stage that has a next stage, and in
\* whatever order, the main loop of each raises nothing and returns
\* 'unfinished', the directory of the next stage is there afterwards, and
\* the step changes no checkpoint and removes no directory.
C15_DirectoryCreationRaceSafe ==
    [][\A p \in RaceProcs :
         (/\ pc[p] = "mainloop" /\ pc'[p] /= "mainloop"
          /\ trainer_status'[p] = STATUS_TRAINING_FINISHED
          /\ ~IsLast(current_evolution[p]))
         => /\ pc'[p] = "returned"
            /\ error'[p] = None
            /\ status'[p] = STATUS_TRAINING_UNFINISHED
            /\ dirs' = dirs \cup {Successor(current_evolution[p])}
            /\ checkpoints' = checkpoints
            /\ recovery_checkpoints' = recovery_checkpoints]_vars

\* two processes have finished the same stage, and the next stage had its
\* directory and a checkpoint before either did
C15_Witness ==
    /\ FinishedWithNext("p1")
    /\ FinishedWithNext("p2")
    /\ current_evolution["p1"] = current_evolution["p2"]
    /\ status["p1"] = STATUS_TRAINING_UNFINISHED
    /\ status["p2"] = STATUS_TRAINING_UNFINISHED
    /\ force_evo["p1"] /= None
    /\ checkpoints[Successor(current_evolution["p1"])] /= {}

(***************************************************************************)
(* what the calls leave alone                                              *)
(***************************************************************************)
\* a comparison, a membership query or an accessor is called on p
QueryStep(p) == query'[p] /= query[p] /\ query'[p] /= NoQuery

C17_NothingToRestore ==
    [][\A p \in Procs, remove \in BOOLEAN :
         (LoadCheckpoint(p, NoPath, remove) /\ init_snapshot[p] = NoSnapshot)
         => /\ restore'[p] = NothingToRestore
            /\ UNCHANGED fs
            /\ IsFirst(current_evolution[p])]_vars

C17_Witness ==
    \E p \in Procs :
        /\ pc[p] = "constructed"
        /\ init_snapshot[p] = NoSnapshot
        /\ IsFirst(current_evolution[p])
        /\ Len(evolutions) > 1
        /\ restore[p] = NothingToRestore

\* C18: a step that changes the directory tree is a step of the running
\* single-stage trainer, the return of mainloop that adds the directory of
\* the next stage and nothing else, or a restoration that was asked to
\* remove a nonfinite checkpoint; construction, failed or not, the call of
\* mainloop, and every comparison, membership query and accessor change
\* nothing.
C18_OnlyNextDirectoryCreated ==
    [][\A p \in Procs :
         /\ ConstructStep(p) => UNCHANGED fs
         /\ QueryStep(p) => UNCHANGED fs
         /\ (pc[p] /= "mainloop" /\ pc'[p] = "mainloop") => UNCHANGED fs
         /\ (pc[p] = "mainloop" /\ pc'[p] /= "mainloop")
            => /\ UNCHANGED <<checkpoints, recovery_checkpoints>>
               /\ dirs' =
                    IF /\ trainer_status'[p] = STATUS_TRAINING_FINISHED
                       /\ ~IsLast(current_evolution[p])
                    THEN dirs \cup {Successor(current_evolution[p])}
                    ELSE dirs
         /\ (fs' /= fs)
            => \/ pc[p] = "mainloop"
               \/ /\ restore'[p].raised
                  /\ restore'[p].remove_nonfinite_checkpoints]_vars

\* mainloop created the directory of the next stage, and a query followed
C18_Witness ==
    \E p \in Procs :
        /\ pc[p] = "returned"
        /\ trainer_status[p] = STATUS_TRAINING_FINISHED
        /\ ~IsLast(current_evolution[p])
        /\ Successor(current_evolution[p]) \in dirs
        /\ checkpoints[Successor(current_evolution[p])] = {}
        /\ query[p].via = "accessor"

(***************************************************************************)
(* the resolved stage from one invocation to the next                      *)
(***************************************************************************)
\* a controller constructed without force_evo after an invocation that was
\* constructed without force_evo; the main loop has not been called
ResolvedAfterUnforced(p) ==
    /\ pc[p] \in {"constructed", "failed"}
    /\ current_evolution[p] /= None
    /\ force_evo[p] = None
    /\ previous.evolution /= None
    /\ ~previous.forced

\* C19: with no force_evo, and directories added by the main loop and the
\* single-stage trainer only, the stage an invocation resolves is the stage
\* the invocation before it resolved, or the stage after that one if the
\* main loop of the invocation before finished its stage.
C19_ResolvedIndexMonotonic ==
    \A p \in Procs :
        ResolvedAfterUnforced(p)
        => /\ Pos(current_evolution[p]) >= Pos(previous.evolution)
           /\ Pos(current_evolution[p]) <=
                Pos(previous.evolution) + (IF previous.finished THEN 1 ELSE 0)

C19_Witness ==
    \E p \in Procs :
        /\ ResolvedAfterUnforced(p)
        /\ previous.finished
        /\ Pos(previous.evolution) = 2
        /\ Pos(current_evolution[p]) = 3

(***************************************************************************)
(* the caller's loop                                                       *)
(***************************************************************************)
\* the loop has received 'finished'
LoopFinished(p) ==
    pc[p] = "returned" /\ status[p] = STATUS_TRAINING_FINISHED

\* the stage the loop is at: the first one, then the one of the invocation
\* before, or its successor once that invocation has finished its stage
StageInSequence ==
    IF previous.evolution = None THEN evolutions[1]
    ELSE IF previous.finished THEN Successor(previous.evolution)
    ELSE previous.evolution

\* C20: the loop receives 'finished' at last, and on the way every
\* construction succeeds and resolves the stage the loop is at: no stage is
\* skipped, no finished stage is trained again, and 'finished' is received
\* from the last stage only.
C20_LoopFinishesAllStages ==
    /\ [](\A p \in Procs :
            /\ pc[p] \notin {"failed", "raised"}
            /\ current_evolution[p] /= None
               => current_evolution[p] = StageInSequence
            /\ LoopFinished(p) => IsLast(current_evolution[p]))
    /\ <>(\E p \in Procs : LoopFinished(p))

C20_Witness ==
    \E p \in Procs :
        /\ LoopFinished(p)
        /\ Len(evolutions) = 3
        /\ current_evolution[p] = evolutions[3]
        /\ previous.evolution = evolutions[2]
        /\ previous.finished
        /\ init_snapshot[p][1] = evolutions[2]

====
